---------------------------- MODULE Spec2Model ----------------------------
(***************************************************************************)
(* FolderTree (src/main.go): main scans a directory with buildNode and     *)
(* writes three renderings of the tree (glyph tree, Markdown, HTML).       *)
(*                                                                         *)
(* Strings are sequences of characters; a character is a one-character     *)
(* TLA+ string, a non-ASCII character is written as its code point         *)
(* ("U+2514").  The file system is the object the target path resolves to: *)
(* a record tree that says, for every entry, whether stat succeeds,        *)
(* whether it is a directory, whether its listing succeeds, and its        *)
(* entries in the order os.ReadDir returns them (sorted by file name).     *)
(***************************************************************************)
EXTENDS Integers, Sequences, FiniteSets, TLC

VARIABLES
    osArgs,       \* os.Args; osArgs[1] is the program name (Go's os.Args[0])
    fs,           \* environment: the file-system object dirPath resolves to
    exeOK,        \* environment: os.Executable succeeds
    writeOK,      \* environment: which of the three os.WriteFile calls succeed
    pc,           \* position of main
    dirPath,      \* main's local dirPath
    root,         \* main's local root (NilNode before buildNode returns)
    unicodeText,  \* main's local unicodeText
    mdText,       \* main's local mdText
    htmlText,     \* main's local htmlText
    stdout,       \* the messages printed so far
    sysCalls,     \* kinds of file-system calls made so far
    writes,       \* the os.WriteFile calls made so far, in order (file names)
    files,        \* output files that exist in exeDir: name -> content
    exitCode      \* the process's exit status (meaningful once pc = "done")

vars == <<osArgs, fs, exeOK, writeOK, pc, dirPath, root, unicodeText, mdText,
          htmlText, stdout, sysCalls, writes, files, exitCode>>

-----------------------------------------------------------------------------
(* Bounds of the checked inputs.                                           *)

\* most file-system entries (the root included) in a generated tree
MaxNodes == 5
\* most entries of a directory in the sorting inputs
MaxEntries == 3
\* longest file name given to escapeHTML in the escaping inputs
MaxEscLen == 4

-----------------------------------------------------------------------------
(* Characters and strings.                                                 *)

Upper == <<"A","B","C","D","E","F","G","H","I","J","K","L","M",
           "N","O","P","Q","R","S","T","U","V","W","X","Y","Z">>
Lower == <<"a","b","c","d","e","f","g","h","i","j","k","l","m",
           "n","o","p","q","r","s","t","u","v","w","x","y","z">>

IsUpper(c) == \E i \in 1..26 : Upper[i] = c
IsLower(c) == \E i \in 1..26 : Lower[i] = c

\* the byte value of an ASCII character (Go compares strings bytewise)
Code(c) ==
    IF IsUpper(c) THEN 64 + (CHOOSE i \in 1..26 : Upper[i] = c)
    ELSE IF IsLower(c) THEN 96 + (CHOOSE i \in 1..26 : Lower[i] = c)
    ELSE CASE c = " " -> 32
           [] c = "&" -> 38
           [] c = "-" -> 45
           [] c = "." -> 46
           [] c = "/" -> 47
           [] c = ";" -> 59
           [] c = "<" -> 60
           [] c = ">" -> 62

ToLowerChar(c) ==
    IF IsUpper(c) THEN Lower[CHOOSE i \in 1..26 : Upper[i] = c] ELSE c

\* strings.ToLower
ToLower(s) == [i \in 1..Len(s) |-> ToLowerChar(s[i])]

\* Go's s < t on strings: bytewise lexicographic
StrLess(s, t) ==
    \E k \in 0..Len(s) :
        /\ k <= Len(t)
        /\ \A i \in 1..k : s[i] = t[i]
        /\ \/ k = Len(s) /\ k < Len(t)
           \/ k < Len(s) /\ k < Len(t) /\ Code(s[k+1]) < Code(t[k+1])

\* strings.EqualFold on ASCII strings
EqualFold(s, t) ==
    /\ Len(s) = Len(t)
    /\ \A i \in 1..Len(s) : ToLowerChar(s[i]) = ToLowerChar(t[i])

RECURSIVE StringsJoin(_, _)
\* strings.Join(elems, sep)
StringsJoin(elems, sep) ==
    IF elems = <<>> THEN <<>>
    ELSE IF Len(elems) = 1 THEN elems[1]
    ELSE elems[1] \o sep \o StringsJoin(Tail(elems), sep)

RECURSIVE Concat(_)
\* the concatenation of a sequence of strings
Concat(ss) == IF ss = <<>> THEN <<>> ELSE Head(ss) \o Concat(Tail(ss))

RECURSIVE StripSlashes(_)
StripSlashes(p) ==
    IF Len(p) > 1 /\ p[Len(p)] = "/" THEN StripSlashes(SubSeq(p, 1, Len(p) - 1))
    ELSE p

\* FileInfo.Name() of os.Stat(p): the base name of p
BaseName(p) ==
    LET q == StripSlashes(p)
        cut == {i \in 1..Len(q) : q[i] = "/"}
        last == IF cut = {} THEN 0 ELSE CHOOSE i \in cut : \A j \in cut : j <= i
    IN  IF q = <<"/">> THEN q ELSE SubSeq(q, last + 1, Len(q))

\* filepath.Join(path, name) for a path main accepted and an entry name
FilepathJoin(path, name) == StripSlashes(path) \o
                            (IF StripSlashes(path) = <<"/">> THEN <<>> ELSE <<"/">>) \o name

-----------------------------------------------------------------------------
(* The file system.  An object is what a path resolves to:                 *)
(*   name     the entry's file name (DirEntry.Name()); the target's own    *)
(*            name is not read: its node is named after dirPath            *)
(*   statOK   os.Stat of its path succeeds                                 *)
(*   isDir    FileInfo.IsDir()                                             *)
(*   listOK   os.ReadDir of its path succeeds                              *)
(*   entries  what os.ReadDir returns: its entries, sorted by file name    *)

FileObj(name)       == [name |-> name, statOK |-> TRUE,  isDir |-> FALSE,
                        listOK |-> FALSE, entries |-> <<>>]
BrokenObj(name)     == [name |-> name, statOK |-> FALSE, isDir |-> FALSE,
                        listOK |-> FALSE, entries |-> <<>>]
UnlistableObj(name) == [name |-> name, statOK |-> TRUE,  isDir |-> TRUE,
                        listOK |-> FALSE, entries |-> <<>>]
DirObj(name, es)    == [name |-> name, statOK |-> TRUE,  isDir |-> TRUE,
                        listOK |-> TRUE,  entries |-> es]

\* file names of the generated trees, in byte order ("B" = 66 < "a" = 97)
TreeNames == << <<"B">>, <<"a">> >>

RECURSIVE ObjsOfSize(_, _, _), EntryLists(_, _, _)
\* every object called name that has exactly n entries (itself included),
\* its descendants named from the byte-ordered sequence names
ObjsOfSize(names, name, n) ==
    IF n = 1
    THEN {FileObj(name), BrokenObj(name), UnlistableObj(name), DirObj(name, <<>>)}
    ELSE {DirObj(name, es) : es \in EntryLists(names, 1, n - 1)}

\* every listing of n entries in all, named from names[k], names[k+1], ...
EntryLists(names, k, n) ==
    IF n = 0 THEN {<<>>}
    ELSE IF k > Len(names) THEN {}
    ELSE EntryLists(names, k + 1, n) \cup
         UNION { UNION { { <<o>> \o rest : rest \in EntryLists(names, k + 1, n - s) }
                         : o \in ObjsOfSize(names, names[k], s) }
                 : s \in 1..n }

\* the target objects of at most n entries
TreesUpTo(n) == UNION { ObjsOfSize(TreeNames, <<"d">>, s) : s \in 1..n }

\* file names that tie or nearly tie under strings.ToLower, in byte order
SortNames == << <<"A">>, <<"A","B">>, <<"A","b">>, <<"B">>,
               <<"a">>, <<"a","B">>, <<"a","b">>, <<"b">> >>

RECURSIVE FileLists(_, _, _)
\* every listing of exactly n files named from names[k], names[k+1], ...
FileLists(names, k, n) ==
    IF n = 0 THEN {<<>>}
    ELSE IF k > Len(names) THEN {}
    ELSE FileLists(names, k + 1, n) \cup
         { <<FileObj(names[k])>> \o rest : rest \in FileLists(names, k + 1, n - 1) }

\* target directories whose entries' lower-cased names tie
SortDirs == { DirObj(<<"d">>, es) :
                es \in UNION { FileLists(SortNames, 1, n) : n \in 0..MaxEntries } }

\* the characters of the names given to escapeHTML
EscAlphabet == {"&", "<", ">", ";", "l", "t"}

\* the strings over EscAlphabet of length 1..n
EscNames(n) == UNION { [1..k -> EscAlphabet] : k \in 1..n }

\* target directories that hold one entry, a file or an empty directory
EscDirs == { DirObj(<<"d">>, <<FileObj(s)>>) : s \in EscNames(MaxEscLen) } \cup
           { DirObj(<<"d">>, <<DirObj(s, <<>>)>>) : s \in EscNames(MaxEscLen) }

-----------------------------------------------------------------------------
(* The runs checked: command lines, target objects, and which calls fail.  *)

ProgName == <<"f","t">>

CommandLines ==
    { <<ProgName>>,
      <<ProgName, <<"-","-","v","e","r","s","i","o","n">> >>,
      <<ProgName, <<"-","-","V","E","R","S","I","O","N">> >>,
      <<ProgName, <<"-","-","V","e","r","s","i","o","n">>, <<"d">> >>,
      <<ProgName, <<"-","-","v","e","r","s","i","o">> >>,
      <<ProgName, <<"-","v","e","r","s","i","o","n">> >>,
      <<ProgName, <<"d">> >>,
      <<ProgName, <<"m","y">>, <<"d","i","r">> >>,
      <<ProgName, <<"p","/","d","/">> >> }

\* the three output files, in the order main writes them:
\* "Древо папок.txt", "Древо папок (Markdown).md", "Древо папок (WEB).html"
TxtFile  == "Drevo papok.txt"
MdFile   == "Drevo papok (Markdown).md"
HtmlFile == "Drevo papok (WEB).html"
OutFiles == {TxtFile, MdFile, HtmlFile}

Env(a, o, e, w) == [osArgs |-> a, fs |-> o, exeOK |-> e, writeOK |-> w]

AllWritesOK == [f \in OutFiles |-> TRUE]
PlainArgs   == <<ProgName, <<"d">> >>

\* every command line and every failure of a call, on small targets
EnvsMain == { Env(a, o, e, w) : a \in CommandLines, o \in TreesUpTo(2),
                                e \in BOOLEAN, w \in [OutFiles -> BOOLEAN] }
\* every target of at most MaxNodes entries, with every stat and listing failure
EnvsTree == { Env(PlainArgs, o, TRUE, AllWritesOK) : o \in TreesUpTo(MaxNodes) }
EnvsSort == { Env(PlainArgs, o, TRUE, AllWritesOK) : o \in SortDirs }
EnvsEsc  == { Env(PlainArgs, o, TRUE, AllWritesOK) : o \in EscDirs }

Envs == EnvsMain \cup EnvsTree \cup EnvsSort \cup EnvsEsc
-----------------------------------------------------------------------------
(* The tree.                                                                *)

\* a nil *Node
NilNode == [nil |-> TRUE]

\* mutant: the names compared as they are, without strings.ToLower
LessCaseSensitive(e1, e2) == StrLess(e1.name, e2.name)

\* sort.Slice's less function: lower-cased names, compared bytewise
Less(e1, e2) == StrLess(ToLower(e1.name), ToLower(e2.name))

\* sort.Slice(entries, less): the outcomes sort.Slice allows.  The result is
\* a permutation of entries in which no element is less than one before it;
\* sort.Slice is not stable, so elements that compare equal come in any order.
SortSlice(entries) ==
    LET n == Len(entries)
        sorted(g) == /\ \A i, j \in 1..n : i # j => g[i] # g[j]
                     /\ \A i \in 1..(n - 1) : ~Less(entries[g[i + 1]], entries[g[i]])
    IN  { [i \in 1..n |-> entries[g[i]]] : g \in {h \in [1..n -> 1..n] : sorted(h)} }

RECURSIVE buildNode(_, _), buildChildren(_, _)
\* mutant: a listing failure returns the node without the error
buildNodeLenient(path, o) ==
    IF ~o.statOK
    THEN {[node |-> NilNode, err |-> TRUE]}
    ELSE LET node == [Name |-> BaseName(path), Path |-> path,
                      IsDir |-> o.isDir, Children |-> <<>>]
         IN  IF ~node.IsDir \/ ~o.listOK THEN {[node |-> node, err |-> FALSE]}
             ELSE { [node |-> [node EXCEPT !.Children = cs], err |-> FALSE] :
                    cs \in UNION { buildChildren(path, es) : es \in SortSlice(o.entries) } }

\* mutant: the loop stops at the first entry that fails (break for continue)
buildChildrenBreak(path, es) ==
    IF es = <<>> THEN {<<>>}
    ELSE UNION { IF r.err THEN {<<>>}
                 ELSE { <<r.node>> \o rest : rest \in buildChildren(path, Tail(es)) } :
                 r \in buildNode(FilepathJoin(path, Head(es).name), Head(es)) }

\* buildNode(path) where path resolves to object o: the (node, err) pairs it
\* can return, one for each outcome of the sorts
buildNode(path, o) ==
    IF ~o.statOK
    THEN {[node |-> NilNode, err |-> TRUE]}
    ELSE LET node == [Name |-> BaseName(path), Path |-> path,
                      IsDir |-> o.isDir, Children |-> <<>>]
         IN  IF ~node.IsDir THEN {[node |-> node, err |-> FALSE]}
             ELSE IF ~o.listOK THEN {[node |-> node, err |-> TRUE]}
             ELSE { [node |-> [node EXCEPT !.Children = cs], err |-> FALSE] :
                    cs \in UNION { buildChildren(path, es) : es \in SortSlice(o.entries) } }

\* the loop over the sorted entries: the children sequences it can build
buildChildren(path, es) ==
    IF es = <<>> THEN {<<>>}
    ELSE { (IF r.err THEN <<>> ELSE <<r.node>>) \o rest :
           r \in buildNode(FilepathJoin(path, Head(es).name), Head(es)),
           rest \in buildChildren(path, Tail(es)) }

-----------------------------------------------------------------------------
(* The renderers.                                                           *)

NL          == <<"\n">>
\* "U+2514" is the corner, "U+251C" the tee, "U+2500" the dash, "U+2502" the bar
BranchLast  == <<"U+2514", "U+2500", "U+2500", " ">>
BranchMid   == <<"U+251C", "U+2500", "U+2500", " ">>
PadBlank    == <<" ", " ", " ", " ">>
PadBar      == <<"U+2502", " ", " ", " ">>
\* "U+1F4C1" is the folder glyph, "U+1F4C4" the document glyph
FolderGlyph == "U+1F4C1"
FileGlyph   == "U+1F4C4"

RECURSIVE renderUnicodeChildren(_, _)
\* mutant: the prefix is extended by the wrong segment (bar under a last
\* child, blank under the others)
renderUnicodeChildrenSwapped(node, prefix) ==
    Concat([i \in 1..Len(node.Children) |->
        LET child  == node.Children[i]
            isLast == i = Len(node.Children)
        IN  prefix \o (IF isLast THEN BranchLast ELSE BranchMid)
            \o child.Name \o (IF child.IsDir THEN <<"/">> \o NL ELSE NL)
            \o (IF child.IsDir
                THEN renderUnicodeChildren(child,
                         prefix \o (IF isLast THEN PadBar ELSE PadBlank))
                ELSE <<>>)])

renderUnicodeChildren(node, prefix) ==
    Concat([i \in 1..Len(node.Children) |->
        LET child  == node.Children[i]
            isLast == i = Len(node.Children)
        IN  prefix \o (IF isLast THEN BranchLast ELSE BranchMid)
            \o child.Name \o (IF child.IsDir THEN <<"/">> \o NL ELSE NL)
            \o (IF child.IsDir
                THEN renderUnicodeChildren(child,
                         prefix \o (IF isLast THEN PadBlank ELSE PadBar))
                ELSE <<>>)])

renderUnicodeTree(r) == r.Name \o NL \o renderUnicodeChildren(r, <<>>)

RECURSIVE Repeat(_, _)
\* strings.Repeat(s, count)
Repeat(s, count) == IF count = 0 THEN <<>> ELSE s \o Repeat(s, count - 1)

RECURSIVE renderMDNode(_, _)
\* mutant: the children are rendered at their parent's depth
renderMDNodeFlat(n, depth) ==
    LET indent == Repeat(<<" ", " ">>, depth)
        line == IF depth = 0
                THEN indent \o <<FolderGlyph, " ", "*", "*">> \o n.Name \o <<"*", "*">> \o NL
                ELSE IF n.IsDir
                THEN indent \o <<"-", " ", FolderGlyph, " ", "*", "*">> \o n.Name
                            \o <<"*", "*">> \o NL
                ELSE indent \o <<"-", " ", FileGlyph, " ">> \o n.Name \o NL
    IN  line \o Concat([i \in 1..Len(n.Children) |->
                           renderMDNode(n.Children[i], IF depth = 0 THEN 1 ELSE depth)])

renderMDNode(n, depth) ==
    LET indent == Repeat(<<" ", " ">>, depth)
        line == IF depth = 0
                THEN indent \o <<FolderGlyph, " ", "*", "*">> \o n.Name \o <<"*", "*">> \o NL
                ELSE IF n.IsDir
                THEN indent \o <<"-", " ", FolderGlyph, " ", "*", "*">> \o n.Name
                            \o <<"*", "*">> \o NL
                ELSE indent \o <<"-", " ", FileGlyph, " ">> \o n.Name \o NL
    IN  line \o Concat([i \in 1..Len(n.Children) |-> renderMDNode(n.Children[i], depth + 1)])

renderMarkdown(r) == renderMDNode(r, 0)

\* strings.ReplaceAll(s, old, new) for a one-character old
ReplaceAll(s, old, new) ==
    Concat([i \in 1..Len(s) |-> IF s[i] = old THEN new ELSE <<s[i]>>])

\* mutant: "&" is replaced last, after "<" and ">"
escapeHTMLAmpLast(s) ==
    LET r1 == ReplaceAll(s, "<", <<"&", "l", "t", ";">>)
        r2 == ReplaceAll(r1, ">", <<"&", "g", "t", ";">>)
        r3 == ReplaceAll(r2, "&", <<"&", "a", "m", "p", ";">>)
    IN  r3

escapeHTML(s) ==
    LET r1 == ReplaceAll(s, "&", <<"&", "a", "m", "p", ";">>)
        r2 == ReplaceAll(r1, "<", <<"&", "l", "t", ";">>)
        r3 == ReplaceAll(r2, ">", <<"&", "g", "t", ";">>)
    IN  r3

DetailsOpen  == <<"<","d","e","t","a","i","l","s"," ","o","p","e","n",">","\n">>
SummaryOpen  == <<"<","s","u","m","m","a","r","y",">">> \o <<FolderGlyph, " ">>
SummaryClose == <<"/","<","/","s","u","m","m","a","r","y",">","\n">>
DetailsClose == <<"<","/","d","e","t","a","i","l","s",">","\n">>
FileOpen     == <<"<","d","i","v"," ","c","l","a","s","s","=","\"","f","i","l","e","\"",">">> \o <<FileGlyph, " ">>
FileClose    == <<"<","/","d","i","v",">","\n">>
\* the static page head (doctype, head, style, container, heading, rule),
\* kept as one piece: nothing in it depends on the tree
HTMLHead     == <<"<!doctype html>...<hr/>\n">>
HTMLTail     == <<"\n","<","/","d","i","v",">","\n","<","/","b","o","d","y",">","\n","<","/","h","t","m","l",">","\n">>

RECURSIVE buildHTMLNode(_)
buildHTMLNode(n) ==
    Concat([i \in 1..Len(n.Children) |->
        LET c == n.Children[i]
        IN  IF c.IsDir
            THEN DetailsOpen \o SummaryOpen \o escapeHTML(c.Name) \o SummaryClose
                 \o buildHTMLNode(c) \o DetailsClose
            ELSE FileOpen \o escapeHTML(c.Name) \o FileClose])

renderHTML(r) == HTMLHead \o buildHTMLNode(r) \o HTMLTail

-----------------------------------------------------------------------------
(* main.                                                                    *)

\* a printed message: what it says, the output file and the path it names
Msg(kind, file, path) == [msg |-> kind, file |-> file, path |-> path]

VersionFlag == <<"-","-","v","e","r","s","i","o","n">>

\* mutant: the flag compared exactly (==) instead of with strings.EqualFold
IsVersionRunExact == Len(osArgs) >= 2 /\ osArgs[2] = VersionFlag

\* the condition of main's first if
IsVersionRun == Len(osArgs) >= 2 /\ EqualFold(osArgs[2], VersionFlag)

Init ==
    \E env \in Envs :
        /\ osArgs = env.osArgs
        /\ fs = env.fs
        /\ exeOK = env.exeOK
        /\ writeOK = env.writeOK
        /\ pc = "start"
        /\ dirPath = <<>>
        /\ root = NilNode
        /\ unicodeText = <<>>
        /\ mdText = <<>>
        /\ htmlText = <<>>
        /\ stdout = <<>>
        /\ sysCalls = {}
        /\ writes = <<>>
        /\ files = <<>>
        /\ exitCode = 0

\* os.Exit(1) after printing m
Fatal(m) ==
    /\ stdout' = Append(stdout, m)
    /\ exitCode' = 1
    /\ pc' = "done"

\* --version: print the version and return
ShowVersion ==
    /\ pc = "start"
    /\ IsVersionRun
    /\ stdout' = Append(stdout, Msg("Version", "", <<>>))
    /\ pc' = "done"
    /\ UNCHANGED <<osArgs, fs, exeOK, writeOK, dirPath, root, unicodeText, mdText,
                   htmlText, sysCalls, writes, files, exitCode>>

\* no argument: print the usage and exit 1
Usage ==
    /\ pc = "start"
    /\ ~IsVersionRun
    /\ Len(osArgs) < 2
    /\ Fatal(Msg("Usage", "", <<>>))
    /\ UNCHANGED <<osArgs, fs, exeOK, writeOK, dirPath, root, unicodeText, mdText,
                   htmlText, sysCalls, writes, files>>

\* dirPath := strings.Join(os.Args[1:], " ")
JoinArgs ==
    /\ pc = "start"
    /\ ~IsVersionRun
    /\ Len(osArgs) >= 2
    /\ dirPath' = StringsJoin(Tail(osArgs), <<" ">>)
    /\ pc' = "stat"
    /\ UNCHANGED <<osArgs, fs, exeOK, writeOK, root, unicodeText, mdText,
                   htmlText, stdout, sysCalls, writes, files, exitCode>>

\* info, err := os.Stat(dirPath)
StatTarget ==
    /\ pc = "stat"
    /\ sysCalls' = sysCalls \cup {"Stat"}
    /\ IF ~fs.statOK
       THEN Fatal(Msg("StatError", "", dirPath))
       ELSE pc' = "isdir" /\ UNCHANGED <<stdout, exitCode>>
    /\ UNCHANGED <<osArgs, fs, exeOK, writeOK, dirPath, root, unicodeText, mdText,
                   htmlText, writes, files>>

\* if !info.IsDir()
CheckIsDir ==
    /\ pc = "isdir"
    /\ IF ~fs.isDir
       THEN Fatal(Msg("NotADirectory", "", dirPath))
       ELSE pc' = "exe" /\ UNCHANGED <<stdout, exitCode>>
    /\ UNCHANGED <<osArgs, fs, exeOK, writeOK, dirPath, root, unicodeText, mdText,
                   htmlText, sysCalls, writes, files>>

\* exePath, err := os.Executable()
GetExecutable ==
    /\ pc = "exe"
    /\ sysCalls' = sysCalls \cup {"Executable"}
    /\ IF ~exeOK
       THEN Fatal(Msg("ExecutableError", "", <<>>))
       ELSE pc' = "build" /\ UNCHANGED <<stdout, exitCode>>
    /\ UNCHANGED <<osArgs, fs, exeOK, writeOK, dirPath, root, unicodeText, mdText,
                   htmlText, writes, files>>

\* mutant: the error of buildNode is not checked
BuildUnchecked ==
    /\ pc = "build"
    /\ \E r \in buildNode(dirPath, fs) :
        /\ root' = r.node
        /\ IF r.node = NilNode
           THEN Fatal(Msg("BuildError", "", <<>>))
           ELSE pc' = "txt" /\ UNCHANGED <<stdout, exitCode>>
    /\ sysCalls' = sysCalls \cup {"Stat"} \cup
                   (IF fs.statOK /\ fs.isDir THEN {"ReadDir"} ELSE {})
    /\ UNCHANGED <<osArgs, fs, exeOK, writeOK, dirPath, unicodeText, mdText,
                   htmlText, writes, files>>

\* root, err := buildNode(dirPath)
Build ==
    /\ pc = "build"
    /\ \E r \in buildNode(dirPath, fs) :
        /\ root' = r.node
        /\ IF r.err
           THEN Fatal(Msg("BuildError", "", <<>>))
           ELSE pc' = "txt" /\ UNCHANGED <<stdout, exitCode>>
    /\ sysCalls' = sysCalls \cup {"Stat"} \cup
                   (IF fs.statOK /\ fs.isDir THEN {"ReadDir"} ELSE {})
    /\ UNCHANGED <<osArgs, fs, exeOK, writeOK, dirPath, unicodeText, mdText,
                   htmlText, writes, files>>

\* err = os.WriteFile(filepath.Join(exeDir, name), []byte(text), 0644), and
\* the message main prints when it fails
WriteFile(name, text) ==
    /\ writes' = Append(writes, name)
    /\ sysCalls' = sysCalls \cup {"WriteFile"}
    /\ IF writeOK[name]
       THEN /\ files' = [f \in DOMAIN files \cup {name} |->
                            IF f = name THEN text ELSE files[f]]
            /\ UNCHANGED stdout
       ELSE /\ stdout' = Append(stdout, Msg("WriteError", name, <<>>))
            /\ UNCHANGED files

WriteTxt ==
    /\ pc = "txt"
    /\ unicodeText' = renderUnicodeTree(root)
    /\ WriteFile(TxtFile, unicodeText')
    /\ pc' = "md"
    /\ UNCHANGED <<osArgs, fs, exeOK, writeOK, dirPath, root, mdText, htmlText, exitCode>>

\* mutant: rendering the outline empties the root's children
WriteMdConsuming ==
    /\ pc = "md"
    /\ mdText' = renderMarkdown(root)
    /\ WriteFile(MdFile, mdText')
    /\ pc' = "html"
    /\ root' = [root EXCEPT !.Children = <<>>]
    /\ UNCHANGED <<osArgs, fs, exeOK, writeOK, dirPath, unicodeText, htmlText, exitCode>>

WriteMd ==
    /\ pc = "md"
    /\ mdText' = renderMarkdown(root)
    /\ WriteFile(MdFile, mdText')
    /\ pc' = "html"
    /\ UNCHANGED <<osArgs, fs, exeOK, writeOK, dirPath, root, unicodeText, htmlText,
                   exitCode>>

WriteHtml ==
    /\ pc = "html"
    /\ htmlText' = renderHTML(root)
    /\ WriteFile(HtmlFile, htmlText')
    /\ pc' = "summary"
    /\ UNCHANGED <<osArgs, fs, exeOK, writeOK, dirPath, root, unicodeText, mdText,
                   exitCode>>

\* mutant: a failed write makes the run exit 1 after the summary
SummaryStrict ==
    /\ pc = "summary"
    /\ stdout' = stdout \o <<Msg("FilesCreated", "", <<>>), Msg("Listed", TxtFile, <<>>),
                             Msg("Listed", MdFile, <<>>), Msg("Listed", HtmlFile, <<>>)>>
    /\ pc' = "done"
    /\ exitCode' = IF DOMAIN files = OutFiles THEN 0 ELSE 1
    /\ UNCHANGED <<osArgs, fs, exeOK, writeOK, dirPath, root, unicodeText, mdText,
                   htmlText, sysCalls, writes, files>>

\* the closing "files created" lines; main returns
Summary ==
    /\ pc = "summary"
    /\ stdout' = stdout \o <<Msg("FilesCreated", "", <<>>), Msg("Listed", TxtFile, <<>>),
                             Msg("Listed", MdFile, <<>>), Msg("Listed", HtmlFile, <<>>)>>
    /\ pc' = "done"
    /\ UNCHANGED <<osArgs, fs, exeOK, writeOK, dirPath, root, unicodeText, mdText,
                   htmlText, sysCalls, writes, files, exitCode>>

Next ==
    \/ ShowVersion
    \/ Usage
    \/ JoinArgs
    \/ StatTarget
    \/ CheckIsDir
    \/ GetExecutable
    \/ Build
    \/ WriteTxt
    \/ WriteMd
    \/ WriteHtml
    \/ Summary

Spec == Init /\ [][Next]_vars

-----------------------------------------------------------------------------
(* Properties of main's control flow.                                       *)

\* the code of os.Args[1] given as a version request, decided on lower case
FirstArgIsVersion == Len(osArgs) >= 2 /\ ToLower(osArgs[2]) = VersionFlag

\* the run has a fatal condition of the target: no argument, a target that
\* cannot be stat'ed, that is no directory, or whose listing fails
FatalCondition ==
    /\ ~FirstArgIsVersion
    /\ \/ Len(osArgs) < 2
       \/ ~fs.statOK
       \/ ~fs.isDir
       \/ ~fs.listOK

NoFileWritten == writes = <<>> /\ DOMAIN files = {} /\ "WriteFile" \notin sysCalls

\* C1: a run with a fatal condition (no argument, target not stat-able, target
\* not a directory, root not buildable because its listing fails) never
\* writes or attempts to write an output file, never gets past buildNode, and
\* exits with status 1; and no run that exits non-zero has written a file.
C1_FatalExitWritesNothing ==
    /\ FatalCondition => /\ NoFileWritten
                         /\ pc \in {"start", "stat", "isdir", "exe", "build", "done"}
                         /\ pc = "done" => exitCode = 1
    /\ exitCode # 0 => pc = "done" /\ NoFileWritten

\* C1 witness: the run of a root that can be stat'ed but not listed has exited
C1_Witness ==
    /\ pc = "done" /\ exitCode = 1
    /\ fs.statOK /\ fs.isDir /\ ~fs.listOK
    /\ stdout = <<Msg("BuildError", "", <<>>)>>

\* the run gets its root built: a target given, a listable directory, and
\* the executable's path known
RootGetsBuilt ==
    /\ ~FirstArgIsVersion /\ Len(osArgs) >= 2
    /\ fs.statOK /\ fs.isDir /\ fs.listOK /\ exeOK

\* the messages of the failed writes, in the order of the writes
WriteErrors ==
    SelectSeq(<<Msg("WriteError", TxtFile, <<>>), Msg("WriteError", MdFile, <<>>),
                Msg("WriteError", HtmlFile, <<>>)>>,
              LAMBDA m : ~writeOK[m.file])

\* C2: once the root is built, every write is attempted whatever became of
\* the writes before it, and at the run's end all three writes were attempted
\* in order (text, Markdown, HTML), each failed write printed one message
\* naming its file, each successful write left its file, the "files created"
\* summary was printed last, and the exit status is 0 - for every combination
\* of write successes and failures.
C2_AllWritesAttempted ==
    RootGetsBuilt =>
        /\ exitCode = 0
        /\ pc = "md" => writes = <<TxtFile>>
        /\ pc = "html" => writes = <<TxtFile, MdFile>>
        /\ pc = "summary" => writes = <<TxtFile, MdFile, HtmlFile>>
        /\ pc \in {"md", "html", "summary"} =>
               stdout = SelectSeq(WriteErrors, LAMBDA m : \E i \in 1..Len(writes) : writes[i] = m.file)
        /\ pc = "done" =>
            /\ writes = <<TxtFile, MdFile, HtmlFile>>
            /\ stdout = WriteErrors \o
                        <<Msg("FilesCreated", "", <<>>), Msg("Listed", TxtFile, <<>>),
                          Msg("Listed", MdFile, <<>>), Msg("Listed", HtmlFile, <<>>)>>
            /\ DOMAIN files = {f \in OutFiles : writeOK[f]}

\* C2 witness: a finished run whose first and third writes failed
C2_Witness ==
    /\ pc = "done" /\ exitCode = 0
    /\ ~writeOK[TxtFile] /\ writeOK[MdFile] /\ ~writeOK[HtmlFile]
    /\ Len(writes) = 3 /\ Len(stdout) = 6

\* C6: when os.Args[1] is "--version" in any letter case, the run makes no
\* stat, directory listing, executable lookup or file write, and ends having
\* printed the version alone (no usage error) with exit status 0.
C6_VersionDoesNoFilesystemWork ==
    FirstArgIsVersion =>
        /\ sysCalls = {}
        /\ writes = <<>> /\ DOMAIN files = {}
        /\ root = NilNode
        /\ exitCode = 0
        /\ pc \in {"start", "done"}
        /\ pc = "done" => stdout = <<Msg("Version", "", <<>>)>>

\* C6 witness: a finished version run whose flag is not in lower case and is
\* followed by a second argument
C6_Witness ==
    /\ pc = "done"
    /\ Len(osArgs) = 3 /\ osArgs[2] # VersionFlag
    /\ stdout = <<Msg("Version", "", <<>>)>>

-----------------------------------------------------------------------------
(* Properties of buildNode.                                                 *)

Range(f) == {f[i] : i \in DOMAIN f}

RECURSIVE Listed(_, _)
\* the entries recursive directory listing reaches from path, each with its
\* path: the object at path itself and whatever its listings hold
Listed(path, o) ==
    {[path |-> path, obj |-> o]} \cup
    UNION { Listed(FilepathJoin(path, e.name), e) : e \in Range(o.entries) }

RECURSIVE NodesOf(_)
\* the nodes of a tree
NodesOf(n) == {n} \cup UNION { NodesOf(c) : c \in Range(n.Children) }

Unlistable(o) == o.statOK /\ o.isDir /\ ~o.listOK

\* buildNode has returned to main
BuildReturned == root # NilNode

\* C3 as claimed: buildNode fails only when the path cannot be stat'ed; a
\* directory that can be stat'ed but not listed comes back without an error,
\* stays in the tree as an empty directory, and as the root it does not abort
\* the run.
C3_Original ==
    BuildReturned =>
        \A x \in Listed(dirPath, fs) :
            /\ \A r \in buildNode(x.path, x.obj) : r.err <=> ~x.obj.statOK
            /\ Unlistable(x.obj) =>
                /\ \E n \in NodesOf(root) :
                       n.Path = x.path /\ n.IsDir /\ n.Children = <<>>
                /\ exitCode = 0

\* C3 amended: buildNode fails exactly when the path cannot be stat'ed (nil
\* node) or is a directory whose listing fails (the directory node with no
\* children, returned together with the error); such a directory is skipped
\* by its parent like any failing entry, and as the root it aborts the run
\* with exit status 1 before any file is written.
C3_ListingFailureIsAnError ==
    BuildReturned =>
        \A x \in Listed(dirPath, fs) :
            /\ \A r \in buildNode(x.path, x.obj) :
                /\ r.err <=> (~x.obj.statOK \/ Unlistable(x.obj))
                /\ ~x.obj.statOK => r.node = NilNode
                /\ Unlistable(x.obj) =>
                       r.node = [Name |-> BaseName(x.path), Path |-> x.path,
                                 IsDir |-> TRUE, Children |-> <<>>]
            /\ Unlistable(x.obj) /\ x.path # dirPath =>
                   \A n \in NodesOf(root) : n.Path # x.path
            /\ Unlistable(x.obj) /\ x.path = dirPath =>
                   /\ pc = "done" /\ exitCode = 1 /\ NoFileWritten
                   /\ stdout = <<Msg("BuildError", "", <<>>)>>

\* C3 witness: a finished successful run over a target that holds, below the
\* root, a directory that can be stat'ed but not listed
C3_Witness ==
    /\ pc = "done" /\ exitCode = 0 /\ BuildReturned
    /\ \E x \in Listed(dirPath, fs) :
           Unlistable(x.obj) /\ Len(x.path) > Len(dirPath) + 2

\* the paths of the tree's nodes
NodePaths == {n.Path : n \in NodesOf(root)}

\* every node carries its entry's base name and directory flag, and only
\* directories have children
NodesMatchEntries ==
    \A n \in NodesOf(root) :
        \E x \in Listed(dirPath, fs) :
            /\ x.path = n.Path
            /\ n.Name = BaseName(n.Path)
            /\ n.IsDir = x.obj.isDir
            /\ ~n.IsDir => n.Children = <<>>

\* C4 as claimed: the tree holds exactly the entries recursive listing
\* reaches, minus those whose own stat fails.
C4_Original ==
    BuildReturned =>
        /\ NodePaths = {x.path : x \in {y \in Listed(dirPath, fs) : y.obj.statOK}}
        /\ NodesMatchEntries

\* C4 amended: the tree holds the root and exactly the entries recursive
\* listing reaches, minus those whose own stat fails and minus the
\* directories whose own listing fails; every other entry is there, at every
\* depth, whatever fails beside it.
C4_TreeIsListingMinusFailures ==
    BuildReturned =>
        /\ NodePaths = {dirPath} \cup
               {x.path : x \in {y \in Listed(dirPath, fs) :
                                   y.obj.statOK /\ ~Unlistable(y.obj)}}
        /\ NodesMatchEntries

\* C4 witness: a built tree of depth two whose target lists, beside an entry
\* that is in the tree, an entry whose stat fails
C4_Witness ==
    /\ pc = "txt"
    /\ \E n \in NodesOf(root) : Len(n.Path) > Len(dirPath) + 2
    /\ \E x \in Listed(dirPath, fs) : ~x.obj.statOK /\ Len(x.path) > Len(dirPath) + 2

\* the object a node was built from
ObjAt(path) == (CHOOSE x \in Listed(dirPath, fs) : x.path = path).obj

\* the place of the entry called name in a directory's listing
ListingIndex(o, name) == CHOOSE i \in 1..Len(o.entries) : o.entries[i].name = name

\* C5 as claimed: every node's children ascend by lower-cased name, and
\* children whose lower-cased names are equal keep the order of the listing.
C5_Original ==
    BuildReturned =>
        \A n \in NodesOf(root) :
            \A i, j \in 1..Len(n.Children) :
                i < j =>
                    LET ki == ToLower(n.Children[i].Name)
                        kj == ToLower(n.Children[j].Name)
                    IN  /\ ~StrLess(kj, ki)
                        /\ ki = kj =>
                              ListingIndex(ObjAt(n.Path), n.Children[i].Name)
                                < ListingIndex(ObjAt(n.Path), n.Children[j].Name)

\* C5 amended: every node's children ascend by lower-cased name (no child's
\* lower-cased name is less than that of a child before it); children whose
\* lower-cased names are equal come in whatever order sort.Slice leaves them.
C5_ChildrenSortedByLowerName ==
    BuildReturned =>
        \A n \in NodesOf(root) :
            \A i, j \in 1..Len(n.Children) :
                i < j => ~StrLess(ToLower(n.Children[j].Name), ToLower(n.Children[i].Name))

\* C5 witness: a built root of three children, two of them equal in lower
\* case, in an order that is not the listing's
C5_Witness ==
    /\ pc = "txt"
    /\ Len(root.Children) = 3
    /\ ToLower(root.Children[1].Name) = ToLower(root.Children[2].Name)
    /\ \E i \in 1..3 : root.Children[i].Name # fs.entries[i].name

-----------------------------------------------------------------------------
(* Properties of the renderers.  A node is addressed by the child indices   *)
(* that lead to it from the root; the empty address is the root.            *)

RECURSIVE Addrs(_)
Addrs(n) ==
    {<<>>} \cup UNION { { <<i>> \o a : a \in Addrs(n.Children[i]) } : i \in 1..Len(n.Children) }

RECURSIVE NodeAt(_, _)
NodeAt(n, a) == IF a = <<>> THEN n ELSE NodeAt(n.Children[Head(a)], Tail(a))

\* a comes before b in depth-first pre-order
Before(a, b) ==
    \E k \in 0..Len(a) :
        /\ k <= Len(b)
        /\ \A i \in 1..k : a[i] = b[i]
        /\ \/ k = Len(a) /\ k < Len(b)
           \/ k < Len(a) /\ k < Len(b) /\ a[k + 1] < b[k + 1]

\* the addresses of the tree in depth-first pre-order, children in tree order
PreOrder(n) ==
    LET S == Addrs(n)
    IN  [k \in 1..Cardinality(S) |->
            CHOOSE a \in S : Cardinality({b \in S : Before(b, a)}) = k - 1]

RECURSIVE Lines(_)
\* the lines of a text, without their line feeds
Lines(t) ==
    IF t = <<>> THEN <<>>
    ELSE LET nl == {i \in 1..Len(t) : t[i] = "\n"}
         IN  IF nl = {} THEN <<t>>
             ELSE LET k == CHOOSE i \in nl : \A j \in nl : i <= j
                  IN  <<SubSeq(t, 1, k - 1)>> \o Lines(SubSeq(t, k + 1, Len(t)))

\* the node at a non-empty address is the last child of its parent
IsLastChild(a) ==
    a[Len(a)] = Len(NodeAt(root, SubSeq(a, 1, Len(a) - 1)).Children)

\* the glyph-tree line of the node at address a
UnicodeLine(a) ==
    IF a = <<>> THEN root.Name
    ELSE Concat([i \in 1..(Len(a) - 1) |->
                    IF IsLastChild(SubSeq(a, 1, i))
                    THEN <<" ", " ", " ", " ">>
                    ELSE <<"U+2502", " ", " ", " ">>])
         \o (IF IsLastChild(a) THEN <<"U+2514", "U+2500", "U+2500", " ">>
                               ELSE <<"U+251C", "U+2500", "U+2500", " ">>)
         \o NodeAt(root, a).Name
         \o (IF NodeAt(root, a).IsDir THEN <<"/">> ELSE <<>>)

\* C7: the glyph tree is the root's name on line 1, then one line per other
\* node in pre-order; the line of a node at depth d is d-1 four-column
\* segments, one per proper non-root ancestor from the top down (bar and three
\* spaces if that ancestor is not a last child, four spaces if it is), then
\* the tee if the node is not a last child or the corner if it is, then the
\* name, then "/" exactly for a directory; every line ends in a line feed.
C7_UnicodeTreeLines ==
    unicodeText # <<>> =>
        /\ unicodeText[Len(unicodeText)] = "\n"
        /\ Lines(unicodeText) =
               [k \in 1..Cardinality(Addrs(root)) |-> UnicodeLine(PreOrder(root)[k])]

\* C7 witness: a rendered tree with a node at depth 3 below a last child whose
\* own parent at depth 2 is not a last child, and an empty directory
C7_Witness ==
    /\ unicodeText # <<>>
    /\ \E a \in Addrs(root) :
           /\ Len(a) = 3
           /\ IsLastChild(SubSeq(a, 1, 1))
           /\ ~IsLastChild(SubSeq(a, 1, 2))
    /\ \E n \in NodesOf(root) : n # root /\ n.IsDir /\ n.Children = <<>>

\* the Markdown line of the node at address a
MarkdownLine(a) ==
    IF a = <<>> THEN <<"U+1F4C1", " ", "*", "*">> \o root.Name \o <<"*", "*">>
    ELSE [i \in 1..(2 * Len(a)) |-> " "]
         \o (IF NodeAt(root, a).IsDir
             THEN <<"-", " ", "U+1F4C1", " ", "*", "*">> \o NodeAt(root, a).Name \o <<"*", "*">>
             ELSE <<"-", " ", "U+1F4C4", " ">> \o NodeAt(root, a).Name)

\* C9: the Markdown outline is one line per node in pre-order, children in
\* tree order: the root as folder glyph and bold name with no indent and no
\* list marker, a node at depth d >= 1 as 2*d spaces, "- ", then folder glyph
\* and bold name for a directory or document glyph and plain name for a file;
\* every line ends in a line feed.
C9_MarkdownLines ==
    mdText # <<>> =>
        /\ mdText[Len(mdText)] = "\n"
        /\ Lines(mdText) =
               [k \in 1..Cardinality(Addrs(root)) |-> MarkdownLine(PreOrder(root)[k])]

\* C9 witness: a rendered outline of a tree with a file at depth 3, an empty
\* directory, and a directory of two children
C9_Witness ==
    /\ mdText # <<>>
    /\ \E a \in Addrs(root) : Len(a) = 3 /\ ~NodeAt(root, a).IsDir
    /\ \E n \in NodesOf(root) : n # root /\ n.IsDir /\ n.Children = <<>>
    /\ \E n \in NodesOf(root) : Len(n.Children) = 2

\* a name with every "&", "<" and ">" replaced by its entity, in one pass
EntitiesFor(s) ==
    Concat([i \in 1..Len(s) |->
        CASE s[i] = "&" -> <<"&", "a", "m", "p", ";">>
          [] s[i] = "<" -> <<"&", "l", "t", ";">>
          [] s[i] = ">" -> <<"&", "g", "t", ";">>
          [] OTHER -> <<s[i]>>])

\* the HTML line that carries the name of the node at address a
HtmlNameLine(a) ==
    IF NodeAt(root, a).IsDir
    THEN <<"<","s","u","m","m","a","r","y",">">> \o <<"U+1F4C1", " ">>
         \o EntitiesFor(NodeAt(root, a).Name) \o <<"/","<","/","s","u","m","m","a","r","y",">">>
    ELSE <<"<","d","i","v"," ","c","l","a","s","s","=","\"","f","i","l","e","\"",">">> \o <<"U+1F4C4", " ">>
         \o EntitiesFor(NodeAt(root, a).Name) \o <<"<","/","d","i","v",">">>

\* the page between its static head and tail
HtmlBody == SubSeq(htmlText, Len(HTMLHead) + 1, Len(htmlText) - Len(HTMLTail))

\* C8: escapeHTML replaces each "&", "<" and ">" of the name by its entity
\* and nothing else (no raw "<" or ">" is left, no "&" of an entity is escaped
\* again), and the lines of the page that carry names are, in pre-order, the
\* summary line of each directory and the file line of each file below the
\* root, each with its name escaped; the other lines open or close a block.
C8_NamesEscapedInHTML ==
    htmlText # <<>> =>
        /\ \A n \in NodesOf(root) :
               /\ escapeHTML(n.Name) = EntitiesFor(n.Name)
               /\ \A i \in 1..Len(escapeHTML(n.Name)) :
                      escapeHTML(n.Name)[i] \notin {"<", ">"}
        /\ SubSeq(htmlText, 1, Len(HTMLHead)) = HTMLHead
        /\ SubSeq(htmlText, Len(htmlText) - Len(HTMLTail) + 1, Len(htmlText)) = HTMLTail
        /\ SelectSeq(Lines(HtmlBody),
                     LAMBDA l : l \notin {<<"<","d","e","t","a","i","l","s"," ","o","p","e","n",">">>,
                                          <<"<","/","d","e","t","a","i","l","s",">">>})
             = [k \in 1..(Cardinality(Addrs(root)) - 1) |->
                    HtmlNameLine(PreOrder(root)[k + 1])]

\* C8 witness: a rendered page for a directory called "&lt;"
C8_Witness ==
    /\ htmlText # <<>>
    /\ Len(root.Children) = 1
    /\ root.Children[1].IsDir
    /\ root.Children[1].Name = <<"&", "l", "t", ";">>

\* C10: from the moment buildNode has returned, no step of main changes the
\* tree (no node's name, directory flag or children), so after every step
\* each text rendered so far is what its renderer yields on the tree as it
\* is then, whichever renderers ran in between.
C10_RenderersLeaveTreeUnchanged ==
    [][BuildReturned =>
          /\ root' = root
          /\ unicodeText' # <<>> => unicodeText' = renderUnicodeTree(root')
          /\ mdText' # <<>> => mdText' = renderMarkdown(root')
          /\ htmlText' # <<>> => htmlText' = renderHTML(root')]_vars

\* C10 witness: a finished run that rendered a tree of depth two three times
C10_Witness ==
    /\ pc = "done" /\ exitCode = 0
    /\ unicodeText # <<>> /\ mdText # <<>> /\ htmlText # <<>>
    /\ \E a \in Addrs(root) : Len(a) = 2

=============================================================================
